---- MODULE Spec2Model ----
(***************************************************************************)
(* Model of the "issues" dashboard topic of policybot.                     *)
(*                                                                         *)
(* Two historical variants of the topic exist in the repository:           *)
(*   "display"     policybot/dashboard/topics/issues/topic.go              *)
(*                 (QueryOpenIssuesByRepo, users resolved, title cut)      *)
(*   "passthrough" the older file (QueryIssuesByRepo, IDs carried raw)     *)
(* One request is followed from the handler through getIssues to the       *)
(* rendered response(s).  Go strings are sequences of bytes.               *)
(***************************************************************************)
EXTENDS Integers, Sequences, FiniteSets, TLC

VARIABLES
    variant,      \* which file is deployed: "display" or "passthrough"
    handler,      \* "none", "html" or "json": the handler serving the request
    pc,           \* position of the request
    orgLogin,     \* handler local orgLogin
    org,          \* getIssues local org (OrgID, "" before resolution)
    repo,         \* getIssues local repo (RepoID, "" before resolution)
    storeIssues,  \* the issues the store holds for the repository
    emitted,      \* the issues the scan has passed to the visit callback
    issues,       \* getIssues local issues: the summaries appended so far
    scanErr,      \* the error the store scan returned
    retIssues,    \* first result of getIssues
    retErr,       \* second result of getIssues
    calls,        \* every cache / store call of the request, in order
    responses     \* every response rendered by the handler, in order

vars == <<variant, handler, pc, orgLogin, org, repo, storeIssues, emitted,
          issues, scanErr, retIssues, retErr, calls, responses>>

----------------------------------------------------------------------------
(* Bounds of the model *)

MaxIssues == 2
MaxAssignees == 2

----------------------------------------------------------------------------
(* Program constants *)

TitleLimit == 50
StatusInternalServerError == 500
StatusNotFound == 404
StatusOK == 200

RepoName == "istio"
JSONDefaultOrg == "istio"
DefaultOrg == "acme"

Unknown == <<"u", "n", "k", "n", "o", "w", "n">>
Separator == <<",", "\n">>
Ellipsis == <<".", " ", ".", " ", ".">>

----------------------------------------------------------------------------
(* Errors.  A nil error is NoErr; util.HTTPErrorf builds an error that      *)
(* carries a status code; the store's own errors carry none.               *)

NoErr == [kind |-> "nil"]

HTTPErrorf(status, msg, name) ==
    [kind |-> "HTTPError", status |-> status, msg |-> msg, name |-> name]

StoreErrors ==
    {[kind |-> "error", msg |-> m] :
        m \in {"store unavailable", "context canceled"}}

----------------------------------------------------------------------------
(* Strings of the inputs *)

Str(n, odd, even) == [i \in 1..n |-> IF i % 2 = 1 THEN odd ELSE even]

\* a two-byte UTF-8 character: lead byte, continuation byte
Lead == "\\xC3"
Cont == "\\xA9"

ShortTitle == <<"b", "u", "g">>

Titles ==
    { ShortTitle,
      Str(TitleLimit - 1, "x", "y"),
      Str(TitleLimit, "x", "y"),
      Str(TitleLimit, "x", "y") \o <<"z">>,
      Str(TitleLimit, "x", "y") \o <<"z", "w">>,
      \* 50 characters in 51 bytes
      <<Lead, Cont>> \o Str(TitleLimit - 1, "x", "y"),
      \* 51 characters in 52 bytes, the 50th character lying on bytes 50-51
      Str(TitleLimit - 1, "x", "y") \o <<Lead, Cont, "z">> }

UserIDs == {"u1", "u2", "u3", "u4", "u5"}

\* The outcome of cache.ReadUser for every user ID.
UserCache ==
    [u \in UserIDs |->
        CASE u = "u1" -> [kind |-> "found", Login |-> <<"a", "l", "i", "c", "e">>]
          [] u = "u2" -> [kind |-> "found", Login |-> <<"b", "o", "b">>]
          [] u = "u3" -> [kind |-> "notfound", Login |-> <<>>]
          [] u = "u4" -> [kind |-> "error", Login |-> <<>>]
          [] u = "u5" -> [kind |-> "found", Login |-> <<>>]]

Issue(n, t, s, a, as) ==
    [Number |-> n, Title |-> t, State |-> s, AuthorID |-> a, AssigneeIDs |-> as]

AssigneeLists == UNION {[1..n -> UserIDs] : n \in 0..MaxAssignees}

\* Issues that differ in number and state only.
PlainIssues ==
    {Issue(n, ShortTitle, s, "u2", <<>>) : n \in {1, 2}, s \in {"open", "closed"}}

\* Issues that vary one projected field each: assignees, title, author.
RichIssues ==
    {Issue(3, ShortTitle, "open", "u1", l) : l \in AssigneeLists \ {<<>>}}
    \cup {Issue(3, t, s, "u1", <<>>) : t \in Titles, s \in {"open"}}
    \cup {Issue(3, ShortTitle, "open", a, <<"u2">>) : a \in UserIDs}

PlainSeqs(n) == UNION {[1..k -> PlainIssues] : k \in 0..n}

InsertAt(s, k, x) == SubSeq(s, 1, k - 1) \o <<x>> \o SubSeq(s, k, Len(s))

\* What the store may hold: up to MaxIssues issues, at most one of them rich.
StoreContents ==
    PlainSeqs(MaxIssues)
    \cup UNION { UNION { {InsertAt(p, k, r) : r \in RichIssues} :
                         k \in 1..(Len(p) + 1) } :
                 p \in PlainSeqs(MaxIssues - 1) }

----------------------------------------------------------------------------
(* Pure parts of the code *)

\* the record of one call to the cache or the store
Call(op, arg, res) ==
    [op |-> op, arg |-> arg, res |-> res, afterFail |-> retErr # NoErr]

getUser_empty(authorID) ==
    IF UserCache[authorID].kind = "found" THEN UserCache[authorID].Login
    ELSE <<>>

getUser(authorID) ==
    IF UserCache[authorID].kind = "found" THEN UserCache[authorID].Login
    ELSE Unknown

\* the calls getUser issues
getUserCalls(ids) ==
    [k \in 1..Len(ids) |-> Call("ReadUser", ids[k], UserCache[ids[k]].kind)]

RECURSIVE AssigneeLoop(_, _, _)
AssigneeLoop(ids, k, assignees) ==
    IF k > Len(ids) THEN assignees
    ELSE AssigneeLoop(ids, k + 1,
            (IF assignees # <<>> THEN assignees \o Separator ELSE assignees)
                \o getUser(ids[k]))

Assignees(ids) == AssigneeLoop(ids, 1, <<>>)

TruncateTitle(title) ==
    IF Len(title) > TitleLimit
    THEN SubSeq(title, 1, TitleLimit) \o Ellipsis
    ELSE title

DisplaySummary(i) ==
    [Repo |-> RepoName,
     Number |-> i.Number,
     Title |-> TruncateTitle(i.Title),
     State |-> i.State,
     AuthorLogin |-> getUser(i.AuthorID),
     Assignees |-> Assignees(i.AssigneeIDs)]

PassThroughSummary_truncating(i) ==
    [Repo |-> RepoName,
     Number |-> i.Number,
     Title |-> TruncateTitle(i.Title),
     State |-> i.State,
     AuthorID |-> i.AuthorID,
     AssigneeIDs |-> i.AssigneeIDs]

PassThroughSummary(i) ==
    [Repo |-> RepoName,
     Number |-> i.Number,
     Title |-> i.Title,
     State |-> i.State,
     AuthorID |-> i.AuthorID,
     AssigneeIDs |-> i.AssigneeIDs]

AppendSummary_front(list, s) == <<s>> \o list

AppendSummary(list, s) == Append(list, s)

\* QueryOpenIssuesByRepo yields the open issues, QueryIssuesByRepo all of them
IsOpen(i) == i.State = "open"

ScanOp == IF variant = "display" THEN "QueryOpenIssuesByRepo"
          ELSE "QueryIssuesByRepo"

Matching == IF variant = "display" THEN SelectSeq(storeIssues, IsOpen)
            ELSE storeIssues

----------------------------------------------------------------------------
(* Initial state: the topic is configured, no request is in progress *)

Init ==
    /\ variant \in {"display", "passthrough"}
    /\ handler = "none"
    /\ pc = "idle"
    /\ orgLogin = ""
    /\ org = ""
    /\ repo = ""
    /\ storeIssues = <<>>
    /\ emitted = <<>>
    /\ issues = <<>>
    /\ scanErr = NoErr
    /\ retIssues = <<>>
    /\ retErr = NoErr
    /\ calls = <<>>
    /\ responses = <<>>

OrgParams == {"", "knative"}

handleListIssuesHTML ==
    /\ pc = "idle"
    /\ \E param \in OrgParams :
         orgLogin' = IF param = "" THEN DefaultOrg ELSE param
    /\ handler' = "html"
    /\ pc' = "org"
    /\ UNCHANGED <<variant, org, repo, storeIssues, emitted, issues, scanErr,
                   retIssues, retErr, calls, responses>>

handleListIssuesJSON ==
    /\ pc = "idle"
    /\ \E param \in OrgParams :
         orgLogin' = IF param = "" THEN JSONDefaultOrg ELSE param
    /\ handler' = "json"
    /\ pc' = "org"
    /\ UNCHANGED <<variant, org, repo, storeIssues, emitted, issues, scanErr,
                   retIssues, retErr, calls, responses>>

\* where getIssues goes after a cache lookup
AfterLookup_noReturn(outcome, next) == next

AfterLookup(outcome, next) == IF outcome = "found" THEN next ELSE "returned"

LookupOutcomes == {"found", "notfound", "error"}

LookupError_conflated(outcome, msgErr, msgNone, name) ==
    CASE outcome \in {"error", "notfound"} ->
            HTTPErrorf(StatusInternalServerError, msgErr, name)
      [] OTHER -> retErr

LookupError(outcome, msgErr, msgNone, name) ==
    CASE outcome = "error" -> HTTPErrorf(StatusInternalServerError, msgErr, name)
      [] outcome = "notfound" -> HTTPErrorf(StatusNotFound, msgNone, name)
      [] OTHER -> retErr

ReadOrgByLogin ==
    /\ pc = "org"
    /\ \E outcome \in LookupOutcomes :
         /\ calls' = Append(calls, Call("ReadOrgByLogin", orgLogin, outcome))
         /\ org' = IF outcome = "found" THEN "org-" \o orgLogin ELSE org
         /\ retErr' = LookupError(outcome,
                                  "unable to get information on organization",
                                  "no information available on organization",
                                  orgLogin)
         /\ pc' = AfterLookup(outcome, "repo")
    /\ retIssues' = <<>>
    /\ UNCHANGED <<variant, handler, orgLogin, repo, storeIssues, emitted,
                   issues, scanErr, responses>>

ReadRepoByName ==
    /\ pc = "repo"
    /\ \E outcome \in LookupOutcomes :
         /\ calls' = Append(calls, Call("ReadRepoByName", RepoName, outcome))
         /\ repo' = IF outcome = "found" THEN "repo-" \o RepoName ELSE repo
         /\ retErr' = LookupError(outcome,
                                  "unable to get information on repository",
                                  "no information available on repository",
                                  RepoName)
         /\ pc' = AfterLookup(outcome, "scan")
    /\ retIssues' = <<>>
    /\ UNCHANGED <<variant, handler, orgLogin, org, storeIssues, emitted,
                   issues, scanErr, responses>>

\* the store scan is issued; the store holds some issues for the repository
QueryIssuesByRepo ==
    /\ pc = "scan"
    /\ storeIssues' \in StoreContents
    /\ calls' = Append(calls, Call(ScanOp, repo, "started"))
    /\ issues' = <<>>
    /\ pc' = "visiting"
    /\ UNCHANGED <<variant, handler, orgLogin, org, repo, emitted, scanErr,
                   retIssues, retErr, responses>>

\* the visit callback, called with the next matching issue
Visit ==
    /\ pc = "visiting"
    /\ Len(emitted) < Len(Matching)
    /\ LET i == Matching[Len(emitted) + 1] IN
         /\ emitted' = Append(emitted, i)
         /\ IF variant = "display"
            THEN /\ issues' = AppendSummary(issues, DisplaySummary(i))
                 /\ calls' = calls \o getUserCalls(i.AssigneeIDs)
                                   \o getUserCalls(<<i.AuthorID>>)
            ELSE /\ issues' = AppendSummary(issues, PassThroughSummary(i))
                 /\ calls' = calls
    /\ UNCHANGED <<variant, handler, pc, orgLogin, org, repo, storeIssues,
                   scanErr, retIssues, retErr, responses>>

\* the scan fails, after any number of visits: return nil, err
ScanFail_partial ==
    /\ pc = "visiting"
    /\ \E e \in StoreErrors :
         /\ scanErr' = e
         /\ retErr' = e
    /\ retIssues' = issues
    /\ pc' = "returned"
    /\ UNCHANGED <<variant, handler, orgLogin, org, repo, storeIssues, emitted,
                   issues, calls, responses>>

ScanFail_wrapped ==
    /\ pc = "visiting"
    /\ \E e \in StoreErrors :
         /\ scanErr' = e
         /\ retErr' = HTTPErrorf(StatusInternalServerError, e.msg, "")
    /\ retIssues' = <<>>
    /\ pc' = "returned"
    /\ UNCHANGED <<variant, handler, orgLogin, org, repo, storeIssues, emitted,
                   issues, calls, responses>>

ScanFail ==
    /\ pc = "visiting"
    /\ \E e \in StoreErrors :
         /\ scanErr' = e
         /\ retErr' = e
    /\ retIssues' = <<>>
    /\ pc' = "returned"
    /\ UNCHANGED <<variant, handler, orgLogin, org, repo, storeIssues, emitted,
                   issues, calls, responses>>

\* the scan ends without error: return issues, nil
ScanDone ==
    /\ pc = "visiting"
    /\ Len(emitted) = Len(Matching)
    /\ retIssues' = issues
    /\ retErr' = NoErr
    /\ pc' = "returned"
    /\ UNCHANGED <<variant, handler, orgLogin, org, repo, storeIssues, emitted,
                   issues, scanErr, calls, responses>>

\* the calls made on the render context
RenderHTMLError(err) == [call |-> "RenderHTMLError", err |-> err]

RenderHTML(body) == [call |-> "RenderHTML", body |-> body]

RenderJSON(status, body) == [call |-> "RenderJSON", status |-> status, body |-> body]

\* the rest of handleListIssuesHTML: no return after the first error page
FinishHTML ==
    /\ pc = "returned"
    /\ handler = "html"
    /\ \E executeOK \in BOOLEAN :
         LET first == IF retErr # NoErr THEN <<RenderHTMLError(retErr)>>
                      ELSE <<>>
             second == IF executeOK
                       THEN RenderHTML(retIssues)
                       ELSE RenderHTMLError([kind |-> "error",
                                             msg |-> "template"])
         IN responses' = responses \o first \o <<second>>
    /\ pc' = "done"
    /\ UNCHANGED <<variant, handler, orgLogin, org, repo, storeIssues, emitted,
                   issues, scanErr, retIssues, retErr, calls>>

FinishJSON ==
    /\ pc = "returned"
    /\ handler = "json"
    /\ responses' = Append(responses,
                           IF retErr # NoErr THEN RenderHTMLError(retErr)
                           ELSE RenderJSON(StatusOK, retIssues))
    /\ pc' = "done"
    /\ UNCHANGED <<variant, handler, orgLogin, org, repo, storeIssues, emitted,
                   issues, scanErr, retIssues, retErr, calls>>

Next ==
    \/ handleListIssuesHTML
    \/ handleListIssuesJSON
    \/ ReadOrgByLogin
    \/ ReadRepoByName
    \/ QueryIssuesByRepo
    \/ Visit
    \/ ScanFail
    \/ ScanDone
    \/ FinishHTML
    \/ FinishJSON

Spec == Init /\ [][Next]_vars

----------------------------------------------------------------------------
(* Definitions used to state the properties *)

Returned == pc \in {"returned", "done"}

CallsOf(ops) == {k \in DOMAIN calls : calls[k].op \in ops}

LookupOps == {"ReadOrgByLogin", "ReadRepoByName"}

ScanOps == {"QueryOpenIssuesByRepo", "QueryIssuesByRepo"}

IsPrefix(p, s) == Len(p) <= Len(s) /\ SubSeq(s, 1, Len(p)) = p

IsSuffix(p, s) ==
    Len(p) <= Len(s) /\ SubSeq(s, Len(s) - Len(p) + 1, Len(s)) = p

Resolves(id) == UserCache[id].kind = "found"

\* the names joined with the separator between consecutive entries
RECURSIVE Join(_)
Join(names) ==
    IF names = <<>> THEN <<>>
    ELSE IF Len(names) = 1 THEN names[1]
    ELSE names[1] \o Separator \o Join(Tail(names))

DisplayNames(ids) ==
    [k \in 1..Len(ids) |->
        IF Resolves(ids[k]) THEN UserCache[ids[k]].Login ELSE Unknown]

\* characters of a UTF-8 string: every byte that is no continuation byte
CharCount(s) == Cardinality({k \in DOMAIN s : s[k] # Cont})

\* the first n characters of s (all of s when it has fewer)
FirstChars(s, n) ==
    LET ends == {k \in 0..Len(s) :
                    /\ CharCount(SubSeq(s, 1, k)) <= n
                    /\ k < Len(s) => s[k + 1] # Cont}
        last == CHOOSE k \in ends : \A j \in ends : j <= k
    IN SubSeq(s, 1, last)

RECURSIVE SumLookups(_)
SumLookups(is) ==
    IF is = <<>> THEN 0
    ELSE 1 + Len(Head(is).AssigneeIDs) + SumLookups(Tail(is))

----------------------------------------------------------------------------
(* C1: when the organization or the repository lookup returns an error,    *)
(* getIssues fails with status 500; when it returns no entity, getIssues   *)
(* fails with status 404; in both cases without summaries.                 *)
C1_LookupClassification ==
    Returned =>
        \A k \in CallsOf(LookupOps) :
            /\ calls[k].res = "error" =>
                  /\ retErr.kind = "HTTPError"
                  /\ retErr.status = StatusInternalServerError
                  /\ retIssues = <<>>
            /\ calls[k].res = "notfound" =>
                  /\ retErr.kind = "HTTPError"
                  /\ retErr.status = StatusNotFound
                  /\ retIssues = <<>>

C1_Witness ==
    /\ pc = "returned"
    /\ \E k \in CallsOf({"ReadRepoByName"}) : calls[k].res = "notfound"
    /\ retErr.kind = "HTTPError"
    /\ retErr.status = StatusNotFound

(* C2: when the store scan fails after any number of visits, getIssues     *)
(* returns no summaries and the scan's error, unchanged.                   *)
C2_ScanFailureAllOrNothing ==
    (Returned /\ scanErr # NoErr) => (retIssues = <<>> /\ retErr = scanErr)

C2_Witness ==
    /\ pc = "returned"
    /\ scanErr # NoErr
    /\ Len(issues) >= 2
    /\ retIssues = <<>>

(* C3 as stated: every error of getIssues carries a status code, 500 or    *)
(* 404, and a store-scan failure carries 500.                              *)
C3_EveryErrorCarriesStatus ==
    (Returned /\ retErr # NoErr) =>
        /\ retErr.kind = "HTTPError"
        /\ retErr.status \in {StatusInternalServerError, StatusNotFound}
        /\ scanErr # NoErr => retErr.status = StatusInternalServerError

(* C3 as amended: the errors getIssues makes for the organization and      *)
(* repository lookups carry status 500 (lookup error) or 404 (not found);  *)
(* a store-scan failure is returned as the store's own error, to which     *)
(* getIssues attaches no status code.                                      *)
C3_StatusOnLookupErrorsOnly ==
    (Returned /\ retErr # NoErr) =>
        IF scanErr # NoErr
        THEN retErr \in StoreErrors /\ retErr.kind # "HTTPError"
        ELSE /\ retErr.kind = "HTTPError"
             /\ \E k \in CallsOf(LookupOps) :
                  \/ /\ calls[k].res = "error"
                     /\ retErr.status = StatusInternalServerError
                  \/ /\ calls[k].res = "notfound"
                     /\ retErr.status = StatusNotFound

C3_Witness ==
    /\ pc = "done"
    /\ scanErr # NoErr
    /\ \E k \in DOMAIN responses :
         /\ responses[k].call = "RenderHTMLError"
         /\ responses[k].err = scanErr

(* C4: on success getIssues returns one summary per issue the scan         *)
(* emitted, in emission order, each with the issue's Number and State and  *)
(* with the repository name of the repository lookup; no issue, no error   *)
(* and no summary.                                                         *)
C4_OneSummaryPerIssueInOrder ==
    (Returned /\ retErr = NoErr) =>
        /\ emitted = Matching
        /\ Len(retIssues) = Len(emitted)
        /\ \A k \in DOMAIN retIssues :
             /\ retIssues[k].Number = emitted[k].Number
             /\ retIssues[k].State = emitted[k].State
             /\ \A c \in CallsOf({"ReadRepoByName"}) :
                  retIssues[k].Repo = calls[c].arg
        /\ emitted = <<>> => retIssues = <<>>

C4_Witness ==
    /\ pc = "returned"
    /\ retErr = NoErr
    /\ Len(retIssues) = 2
    /\ retIssues[1].Number > retIssues[2].Number
    /\ retIssues[1].State # retIssues[2].State

(* C5: in the display variant an author or assignee that does not resolve  *)
(* (lookup error or not found) is shown as "unknown", one that resolves    *)
(* as its login, and getIssues succeeds with all summaries whenever the    *)
(* scan succeeds.                                                          *)
C5_UnknownUsersAreNotFatal ==
    (variant = "display" /\ Returned /\ CallsOf(ScanOps) # {}
                         /\ scanErr = NoErr) =>
        /\ retErr = NoErr
        /\ Len(retIssues) = Len(emitted)
        /\ \A k \in DOMAIN retIssues :
             LET ids == emitted[k].AssigneeIDs IN
             /\ retIssues[k].AuthorLogin =
                    IF Resolves(emitted[k].AuthorID)
                    THEN UserCache[emitted[k].AuthorID].Login
                    ELSE Unknown
             /\ (ids # <<>> /\ ~Resolves(ids[1])) =>
                    IsPrefix(Unknown, retIssues[k].Assignees)
             /\ (ids # <<>> /\ ~Resolves(ids[Len(ids)])) =>
                    IsSuffix(Unknown, retIssues[k].Assignees)

C5_Witness ==
    /\ variant = "display"
    /\ pc = "returned"
    /\ retErr = NoErr
    /\ \E k \in DOMAIN retIssues :
         /\ UserCache[emitted[k].AuthorID].kind = "error"
         /\ retIssues[k].AuthorLogin = Unknown
    /\ Len(retIssues) >= 2

(* C6: in the display variant the Assignees string is the display names    *)
(* of the assignees, in input order, with ",\n" between consecutive        *)
(* entries: Len(AssigneeIDs) - 1 separators, none leading or trailing.     *)
C6_AssigneesJoined ==
    variant = "display" =>
        \A k \in DOMAIN issues :
            issues[k].Assignees = Join(DisplayNames(emitted[k].AssigneeIDs))

(* C7: in the display variant a title of more than 50 characters becomes   *)
(* its first 50 characters followed by ". . ."; a title of 50 characters   *)
(* or fewer is unchanged.                                                  *)
C7_TitleTruncatedAtFiftyCharacters ==
    variant = "display" =>
        \A k \in DOMAIN issues :
            issues[k].Title =
                IF CharCount(emitted[k].Title) > TitleLimit
                THEN FirstChars(emitted[k].Title, TitleLimit) \o Ellipsis
                ELSE emitted[k].Title

(* C8: in the pass-through variant every summary carries the issue's       *)
(* AuthorID, AssigneeIDs and Title unchanged, and no user lookup is        *)
(* issued.                                                                 *)
C8_PassThroughCarriesRaw ==
    variant = "passthrough" =>
        /\ Len(issues) = Len(emitted)
        /\ \A k \in DOMAIN issues :
             /\ issues[k].AuthorID = emitted[k].AuthorID
             /\ issues[k].AssigneeIDs = emitted[k].AssigneeIDs
             /\ issues[k].Title = emitted[k].Title
        /\ CallsOf({"ReadUser"}) = {}
        /\ (Returned /\ retErr = NoErr) => retIssues = issues

C8_Witness ==
    /\ variant = "passthrough"
    /\ pc = "returned"
    /\ retErr = NoErr
    /\ \E k \in DOMAIN retIssues :
         /\ Len(retIssues[k].Title) > TitleLimit
         /\ retIssues[k].Title = emitted[k].Title
    /\ Len(retIssues) >= 2

(* C9: when getIssues fails, handleListIssuesHTML renders the error page   *)
(* and nothing else: every request gets exactly one response.              *)
C9_HTMLOneResponse ==
    (pc = "done" /\ handler = "html") =>
        /\ Len(responses) = 1
        /\ retErr # NoErr => responses[1] = RenderHTMLError(retErr)

(* C10: one pass, no retry: the organization lookup is issued once; the    *)
(* repository lookup at most once, after the organization was found; the   *)
(* scan at most once, after the repository was found; user lookups only    *)
(* under the scan, one per author and one per assignee of a visited issue; *)
(* and no call is made once a step has failed.                             *)
C10_SinglePassFailFast ==
    /\ Cardinality(CallsOf({"ReadOrgByLogin"})) =
           (IF pc \in {"idle", "org"} THEN 0 ELSE 1)
    /\ Cardinality(CallsOf({"ReadRepoByName"})) <= 1
    /\ Cardinality(CallsOf(ScanOps)) <= 1
    /\ \A k \in DOMAIN calls :
         /\ ~calls[k].afterFail
         /\ calls[k].op = "ReadOrgByLogin" => k = 1
         /\ calls[k].op = "ReadRepoByName" =>
               /\ k = 2
               /\ calls[1].op = "ReadOrgByLogin" /\ calls[1].res = "found"
         /\ calls[k].op \in ScanOps =>
               /\ k = 3
               /\ calls[2].op = "ReadRepoByName" /\ calls[2].res = "found"
         /\ calls[k].op = "ReadUser" =>
               /\ k > 3
               /\ calls[3].op \in ScanOps
         /\ (k < Len(calls) /\ calls[k].op \in LookupOps) =>
               calls[k].res = "found"
    /\ Cardinality(CallsOf({"ReadUser"})) =
           (IF variant = "display" THEN SumLookups(emitted) ELSE 0)
    /\ scanErr # NoErr => pc \in {"returned", "done"}

C10_Witness ==
    /\ pc = "done"
    /\ retErr = NoErr
    /\ Len(calls) >= 6
    /\ \E k \in CallsOf({"ReadUser"}) : calls[k].res = "error"

====
